---------------------------- MODULE Spec2Model ----------------------------
(***************************************************************************)
(* Model of the hr-Nexus session gate:                                     *)
(*   - middleware(request)      (route classifier, src/unnamed/part_000)   *)
(*   - useOptimizedKPIData      (KPI fetch hook,                           *)
(*                               src/lib/hooks/useOptimizedKPIData.ts)     *)
(* The browser state shared by both is the cookie jar and localStorage.    *)
(***************************************************************************)
EXTENDS Integers, Sequences, FiniteSets, TLC

(***************************************************************************)
(* Bounds of the model.                                                    *)
(***************************************************************************)
\* the clock runs from StartNow to MaxNow
MaxNow == 3
\* number of fetch cycles that can be in flight at the same time
MaxInFlight == 2

StartNow == MaxNow - 1

(***************************************************************************)
(* JavaScript values.                                                      *)
(***************************************************************************)
Undefined == "undefined"
\* the result of Date.getTime() for an Invalid Date
NaN == -1

Truthy(s) == s \notin {Undefined, ""}

\* expires_at as stored in the JSON: missing, a string that is no date, or
\* a date given by its instant
ExpUndefined == [kind |-> "undefined", ms |-> 0]
ExpGarbage == [kind |-> "string", ms |-> 0]
ExpAt(n) == [kind |-> "iso", ms |-> n]

\* new Date(v) with a value that is no date read as the epoch
NewDateEpoch(v) == IF v.kind = "iso" THEN v.ms ELSE 0

\* new Date(v): the instant, or NaN for an Invalid Date
NewDate(v) == IF v.kind = "iso" THEN v.ms ELSE NaN

\* a < b on Dates: any comparison with an Invalid Date is false
DateLess(a, b) == a # NaN /\ b # NaN /\ a < b

(***************************************************************************)
(* Session blobs: JSON text, and its base64 encoding in the cookie.        *)
(***************************************************************************)
JsonNull == [kind |-> "null"]
SessionObject(cid, tok, exp) ==
    [kind |-> "object", company_id |-> cid, access_token |-> tok, expires_at |-> exp]

\* ExpAt(1) is in the past from the start; ExpAt(StartNow) passes when the
\* clock ticks
Expiries == {ExpUndefined, ExpAt(1), ExpAt(StartNow)}

\* the sessions of the model: a complete one with each expiry, and the three
\* incomplete shapes: no company_id (and a date that does not parse), no
\* access_token, and '{}'
SessionObjects ==
    {SessionObject("c1", "t1", e) : e \in Expiries}
        \cup {SessionObject(Undefined, "t1", ExpGarbage),
              SessionObject("c1", Undefined, ExpAt(StartNow)),
              SessionObject(Undefined, Undefined, ExpUndefined)}

JsonValues == {JsonNull} \cup SessionObjects

\* a text: either not JSON at all, or the serialisation of a value
NotJson == [kind |-> "notJSON"]
JsonText(v) == [kind |-> "json", value |-> v]
Texts == {NotJson} \cup {JsonText(v) : v \in JsonValues}

\* a cookie value: either not base64 at all, or the base64 of a text
Absent == [kind |-> "absent"]
NotBase64 == [kind |-> "notBase64"]
Btoa(text) == [kind |-> "base64", text |-> text]
CookieValues == {NotBase64} \cup {Btoa(x) : x \in Texts}

\* atob / JSON.parse: each either throws or yields the decoded value
Atob(c) ==
    IF c.kind = "base64" THEN [threw |-> FALSE, value |-> c.text]
    ELSE [threw |-> TRUE, value |-> NotJson]

JsonParse(text) ==
    IF text.kind = "json" THEN [threw |-> FALSE, value |-> text.value]
    ELSE [threw |-> TRUE, value |-> JsonNull]

\* JSON.parse(atob(value))
DecodeCookie(c) ==
    LET a == Atob(c)
    IN IF a.threw THEN [threw |-> TRUE, value |-> JsonNull] ELSE JsonParse(a.value)

(***************************************************************************)
(* middleware                                                              *)
(***************************************************************************)
publicPaths ==
    <<"/", "/login", "/demo", "/api/demo", "/favicon.ico", "/_next", "/api/health">>
adminPaths == <<"/admin">>
protectedPaths == <<"/dashboard", "/import", "/employees", "/settings", "/api/import">>

\* String.prototype.startsWith
startsWith(s, p) == Len(p) <= Len(s) /\ SubSeq(s, 1, Len(p)) = p

\* the public test by equality instead of by prefix
isPublicPathExact(path) ==
    \E i \in 1..Len(publicPaths) : path = publicPaths[i]

isPublicPath(path) ==
    \E i \in 1..Len(publicPaths) :
        path = publicPaths[i] \/ startsWith(path, publicPaths[i])

isAdminPath(path) ==
    \E i \in 1..Len(adminPaths) : startsWith(path, adminPaths[i])

isProtectedPath(path) ==
    \E i \in 1..Len(protectedPaths) : startsWith(path, protectedPaths[i])

\* responses: what the middleware returns, with the cookies it read
NextResponseNext(read) ==
    [kind |-> "next", location |-> "", cleared |-> {}, headers |-> {}, read |-> read]
NextResponseNextWith(hdrs, read) ==
    [kind |-> "next", location |-> "", cleared |-> {}, headers |-> hdrs, read |-> read]
NextResponseRedirect(to, cleared, read) ==
    [kind |-> "redirect", location |-> to, cleared |-> cleared, headers |-> {},
     read |-> read]
\* lines 43-60
adminRoute(cookies, t) ==
    LET adminSession == cookies["admin_session"]
        read == {"admin_session"}
        d == DecodeCookie(adminSession)
    IN IF adminSession = Absent
       THEN NextResponseRedirect("/admin/login", {}, read)
       ELSE IF d.threw \/ d.value = JsonNull
       THEN \* catch: the parse failed, or sessionData is null
            NextResponseRedirect("/admin/login", {}, read)
       ELSE IF DateLess(NewDate(d.value.expires_at), t)
       THEN NextResponseRedirect("/admin/login", {"admin_session"}, read)
       ELSE NextResponseNext(read)

\* lines 69-111
protectedRoute(cookies, t) ==
    LET companySession == cookies["company_session"]
        read == {"company_session"}
        d == DecodeCookie(companySession)
    IN IF companySession = Absent
       THEN NextResponseRedirect("/login", {}, read)
       ELSE IF d.threw \/ d.value = JsonNull
       THEN \* catch
            NextResponseRedirect("/login", {"company_session"}, read)
       ELSE IF DateLess(NewDate(d.value.expires_at), t)
       THEN NextResponseRedirect("/login", {"company_session"}, read)
       ELSE IF ~Truthy(d.value.company_id) \/ ~Truthy(d.value.access_token)
       THEN NextResponseRedirect("/login", {"company_session"}, read)
       ELSE NextResponseNextWith(
                {<<"x-company-id", d.value.company_id>>,
                 <<"x-access-token", d.value.access_token>>}, read)

\* the classification with the public test made last instead of first
middlewarePublicLast(path, cookies, t) ==
    IF isAdminPath(path) /\ path # "/admin/login" THEN adminRoute(cookies, t)
    ELSE IF isProtectedPath(path) THEN protectedRoute(cookies, t)
    ELSE NextResponseNext({})

middleware(path, cookies, t) ==
    IF isPublicPath(path) THEN NextResponseNext({})
    ELSE IF isAdminPath(path) /\ path # "/admin/login" THEN adminRoute(cookies, t)
    ELSE IF isProtectedPath(path) THEN protectedRoute(cookies, t)
    ELSE NextResponseNext({})

(***************************************************************************)
(* useOptimizedKPIData                                                     *)
(***************************************************************************)
\* localStorage.getItem: null (Absent), the empty string, or a text
EmptyText == [kind |-> "empty"]
StoreValues == {Absent, EmptyText} \cup Texts

NoError == "null"
SessionExpired == "Session expiree"
NullData == [kind |-> "null"]

\* validateSession with lines 60-61 left out: the expired session is
\* reported invalid and both copies stay
validateSessionNoClear(store, t) ==
    LET j == JsonParse(store)
    IN IF store.kind \in {"absent", "empty"} \/ j.threw \/ j.value = JsonNull
       THEN [verdict |-> "invalid", clear |-> FALSE, p_token |-> Undefined]
       ELSE IF DateLess(NewDate(j.value.expires_at), t)
       THEN [verdict |-> "invalid", clear |-> FALSE, p_token |-> Undefined]
       ELSE [verdict |-> "rpc", clear |-> FALSE, p_token |-> j.value.access_token]

\* validateSession with the expiry test of lines 59-63 left out
validateSessionNoExpiry(store, t) ==
    LET j == JsonParse(store)
    IN IF store.kind \in {"absent", "empty"} \/ j.threw \/ j.value = JsonNull
       THEN [verdict |-> "invalid", clear |-> FALSE, p_token |-> Undefined]
       ELSE [verdict |-> "rpc", clear |-> FALSE, p_token |-> j.value.access_token]

\* lines 51-73, up to the await: the verdict reached without the network
\* ("invalid"), or the RPC to issue ("rpc"); clear: lines 60-61 ran
validateSession(store, t) ==
    LET j == JsonParse(store)
    IN IF store.kind \in {"absent", "empty"}
       THEN [verdict |-> "invalid", clear |-> FALSE, p_token |-> Undefined]
       ELSE IF j.threw \/ j.value = JsonNull
       THEN \* catch: JSON.parse threw, or session is null
            [verdict |-> "invalid", clear |-> FALSE, p_token |-> Undefined]
       ELSE IF DateLess(NewDate(j.value.expires_at), t)
       THEN [verdict |-> "invalid", clear |-> TRUE, p_token |-> Undefined]
       ELSE [verdict |-> "rpc", clear |-> FALSE, p_token |-> j.value.access_token]

\* what supabase.rpc('validate_access_token') settles with
RpcThrew == [kind |-> "threw", rows |-> <<>>]
RpcNoData == [kind |-> "null", rows |-> <<>>]
RpcRows(rs) == [kind |-> "rows", rows |-> rs]
RpcResults ==
    {RpcThrew, RpcNoData, RpcRows(<<>>),
     RpcRows(<<[is_valid |-> TRUE]>>), RpcRows(<<[is_valid |-> FALSE]>>)}

\* the verdict read from the result without looking at its first row
isValidResultAnyRows(r) == r.kind = "rows"

\* line 69-71: validationResult?.[0]?.is_valid || false
isValidResult(r) ==
    r.kind = "rows" /\ Len(r.rows) >= 1 /\ r.rows[1].is_valid

\* a column value as the query service returns it
RawNull == [kind |-> "null", n |-> 0]
RawStr == [kind |-> "string", n |-> 0]
RawNum(n) == [kind |-> "number", n |-> n]
RawVals == {RawNum(12)}

\* Number(x) || 0
NumberOrZero(raw) ==
    LET num == CASE raw.kind = "number" -> raw.n
                 [] raw.kind = "null" -> 0
                 [] OTHER -> NaN
    IN IF num = NaN \/ num = 0 THEN 0 ELSE num

\* what one .maybeSingle() read settles with: {data, error}
Messages == {"timeout"}
NoRow == [kind |-> "null"]
Row(raw) == [kind |-> "row", field |-> raw]
ReadError(m) == [error |-> m, data |-> NoRow]
ReadOk(d) == [error |-> NoError, data |-> d]
ReadResults ==
    {ReadError(m) : m \in Messages} \cup {ReadOk(NoRow)}
        \cup {ReadOk(Row(v)) : v \in RawVals}

\* the three reads of lines 94-140, by the name the error message gives them
Partitions == {"Workforce", "Financial", "Absence"}

\* lines 143-145 with the financial read's error reported under the
\* workforce name
readsErrorMisnamed(wf, fin, ab) ==
    IF wf.error # NoError THEN "Workforce data: " \o wf.error
    ELSE IF fin.error # NoError THEN "Workforce data: " \o fin.error
    ELSE IF ab.error # NoError THEN "Absence data: " \o ab.error
    ELSE NoError

\* lines 143-145: the first read that reported an error decides the message
readsError(wf, fin, ab) ==
    IF wf.error # NoError THEN "Workforce data: " \o wf.error
    ELSE IF fin.error # NoError THEN "Financial data: " \o fin.error
    ELSE IF ab.error # NoError THEN "Absence data: " \o ab.error
    ELSE NoError

\* row-less partitions rendered as records of zeroes instead of null
transformPartitionZeroes(res) ==
    IF res.data.kind = "row"
    THEN [kind |-> "kpi", value |-> NumberOrZero(res.data.field)]
    ELSE [kind |-> "kpi", value |-> 0]

\* lines 149-178, one partition: res.data ? {...} : null
transformPartition(res) ==
    IF res.data.kind = "row"
    THEN [kind |-> "kpi", value |-> NumberOrZero(res.data.field)]
    ELSE [kind |-> "null"]

\* lines 148-179
transformedData(wf, fin, ab) ==
    [kind |-> "data",
     workforce |-> transformPartition(wf),
     financials |-> transformPartition(fin),
     absences |-> transformPartition(ab)]

\* line 184-185: JSON.parse(localStorage.getItem(...) || '{}'), then
\* session.company_id; "threw" when the parse or the field read throws
activitySession(store) ==
    LET j == JsonParse(store)
    IN IF store.kind \in {"absent", "empty"}
       THEN [threw |-> FALSE, message |-> NoError, company_id |-> Undefined]
       ELSE IF j.threw
       THEN [threw |-> TRUE, message |-> "Unexpected token", company_id |-> Undefined]
       ELSE IF j.value = JsonNull
       THEN [threw |-> TRUE, message |-> "Cannot read properties of null",
             company_id |-> Undefined]
       ELSE [threw |-> FALSE, message |-> NoError, company_id |-> j.value.company_id]

\* line 212: isValid: data !== null
isValid(d) == d # NullData

(***************************************************************************)
(* State.                                                                  *)
(***************************************************************************)
VARIABLES
    now,              \* new Date()
    cookies,          \* the browser's cookie jar: name -> value or Absent
    localStorage,     \* the entry 'company_session'
    request,          \* the last request seen by middleware
    response,         \* what middleware returned for it
    establishmentId,  \* the hook's arguments
    period,
    mounted,          \* the mount effect has run
    data,             \* useState: data, loading, error
    loading,
    error,
    href,             \* window.location.href
    cycle             \* the invocations of fetchOptimizedKPIs in flight

vars == <<now, cookies, localStorage, request, response, establishmentId, period,
          mounted, data, loading, error, href, cycle>>

browserVars == <<cookies, localStorage>>
middlewareVars == <<request, response>>
hookVars == <<mounted, data, loading, error, href, cycle>>

Slots == 1..MaxInFlight

\* one invocation of fetchOptimizedKPIs: where it is suspended (pc), the
\* token its RPC in flight carries, and how it ended
IdleCycle == [pc |-> "idle", p_token |-> Undefined, outcome |-> "none"]

Done(outcome) == [IdleCycle EXCEPT !.pc = "done", !.outcome = outcome]

Ids == {"", "E1"}
Periods == {"", "2024-01"}

Paths ==
    {"/", "/login", "/dashboard", "/dashboard/kpi", "/admin", "/admin/login",
     "/admin/users", "/api/import", "/settings", "/pricing", "/public/logo.png"}

CookieNames == {"company_session", "admin_session"}
\* a request: its path, the cookies it carries and the time it is made
NoRequest == [path |-> "", cookies |-> [n \in CookieNames |-> Absent], at |-> 0]
NoResponse ==
    [kind |-> "none", location |-> "", cleared |-> {}, headers |-> {}, read |-> {}]

\* lines 117-128: middleware runs for every path except those that start
\* with one of the excluded names right after the leading slash
matcher(path) ==
    /\ startsWith(path, "/")
    /\ \A x \in {"api/public", "_next/static", "_next/image", "favicon.ico", "public"} :
          ~startsWith(SubSeq(path, 2, Len(path)), x)

(***************************************************************************)
(* The request/response round of the middleware.  The browser applies the  *)
(* response: a cookie set with maxAge 0 leaves the jar.                    *)
(***************************************************************************)
Request(path) ==
    LET r == middleware(path, cookies, now)
    IN /\ matcher(path)
       /\ request' = [path |-> path, cookies |-> cookies, at |-> now]
       /\ response' = r
       /\ cookies' = [n \in DOMAIN cookies |->
                        IF n \in r.cleared THEN Absent ELSE cookies[n]]
       /\ UNCHANGED <<now, localStorage, establishmentId, period, hookVars>>

(***************************************************************************)
(* The hook.  Each action is one run of the code between two suspensions.  *)
(***************************************************************************)
\* fetchOptimizedKPIs with the test of lines 76-79 left out: empty arguments
\* go through the session check like any others
fetchOptimizedKPIsNoShortCircuit(c, e, p) ==
    LET v == validateSession(localStorage, now)
    IN /\ cycle[c].pc \in {"idle", "done"}
       /\ loading' = TRUE
       /\ error' = NoError
       /\ localStorage' = IF v.clear THEN Absent ELSE localStorage
       /\ cookies' = IF v.clear
                     THEN [cookies EXCEPT !["company_session"] = Absent]
                     ELSE cookies
       /\ cycle' = [cycle EXCEPT ![c] =
             IF v.verdict = "rpc"
             THEN [IdleCycle EXCEPT !.pc = "awaitRpc", !.p_token = v.p_token]
             ELSE [IdleCycle EXCEPT !.pc = "validated"]]
       /\ UNCHANGED <<data, href>>

\* lines 75-86: fetchOptimizedKPIs up to the first suspension; validateSession
\* runs synchronously up to its await
fetchOptimizedKPIs(c, e, p) ==
    LET v == validateSession(localStorage, now)
    IN /\ cycle[c].pc \in {"idle", "done"}
       /\ IF ~Truthy(e) \/ ~Truthy(p)
          THEN /\ loading' = FALSE
               /\ cycle' = [cycle EXCEPT ![c] = Done("noInput")]
               /\ UNCHANGED <<error, localStorage, cookies>>
          ELSE /\ loading' = TRUE
               /\ error' = NoError
               /\ localStorage' = IF v.clear THEN Absent ELSE localStorage
               /\ cookies' = IF v.clear
                             THEN [cookies EXCEPT !["company_session"] = Absent]
                             ELSE cookies
               /\ cycle' = [cycle EXCEPT ![c] =
                     IF v.verdict = "rpc"
                     THEN [IdleCycle EXCEPT !.pc = "awaitRpc", !.p_token = v.p_token]
                     ELSE [IdleCycle EXCEPT !.pc = "validated"]]
       /\ UNCHANGED <<data, href>>

\* lines 87-94 without the test of line 87: the reads are issued whatever
\* validateSession returned
afterValidateIgnoresVerdict(c, valid) ==
    /\ cycle' = [cycle EXCEPT ![c] = [IdleCycle EXCEPT !.pc = "awaitReads"]]
    /\ UNCHANGED <<data, error, href, loading>>

\* lines 87-94 with the failing branch resetting data
afterValidateResetsData(c, valid) ==
    IF ~valid
    THEN /\ error' = SessionExpired
         /\ href' = "/login"
         /\ loading' = FALSE
         /\ data' = NullData
         /\ cycle' = [cycle EXCEPT ![c] = Done("invalidSession")]
    ELSE /\ cycle' = [cycle EXCEPT ![c] = [IdleCycle EXCEPT !.pc = "awaitReads"]]
         /\ UNCHANGED <<data, error, href, loading>>

\* lines 87-94: after validateSession has returned
afterValidate(c, valid) ==
    IF ~valid
    THEN /\ error' = SessionExpired
         /\ href' = "/login"
         /\ loading' = FALSE
         /\ cycle' = [cycle EXCEPT ![c] = Done("invalidSession")]
         /\ UNCHANGED data
    ELSE /\ cycle' = [cycle EXCEPT ![c] = [IdleCycle EXCEPT !.pc = "awaitReads"]]
         /\ UNCHANGED <<data, error, href, loading>>

\* the slot a new invocation runs in
FreeSlots == {c \in Slots : cycle[c].pc \in {"idle", "done"}}
FreeSlot == CHOOSE c \in FreeSlots : \A d \in FreeSlots : c <= d

\* lines 202-204, first render
Mount ==
    /\ ~mounted
    /\ mounted' = TRUE
    /\ fetchOptimizedKPIs(FreeSlot, establishmentId, period)
    /\ UNCHANGED <<now, middlewareVars, establishmentId, period>>

\* lines 199-204: a render with new arguments makes a new callback, and the
\* effect calls it
DepsChange(e, p) ==
    /\ mounted
    /\ FreeSlots # {}
    /\ <<e, p>> # <<establishmentId, period>>
    /\ establishmentId' = e
    /\ period' = p
    /\ fetchOptimizedKPIs(FreeSlot, e, p)
    /\ UNCHANGED <<now, middlewareVars, mounted>>

\* line 211: refresh
Refresh ==
    /\ mounted
    /\ FreeSlots # {}
    /\ fetchOptimizedKPIs(FreeSlot, establishmentId, period)
    /\ UNCHANGED <<now, middlewareVars, mounted, establishmentId, period>>

\* lines 54, 62, 71 then 87-91: validateSession returned false before its await
ValidateReturned(c) ==
    /\ cycle[c].pc = "validated"
    /\ afterValidate(c, FALSE)
    /\ UNCHANGED <<now, browserVars, middlewareVars, mounted, establishmentId, period>>

\* lines 66-72 then 87-94: the RPC settles
RpcSettle(c, r) ==
    /\ cycle[c].pc = "awaitRpc"
    /\ afterValidate(c, IF r.kind = "threw" THEN FALSE ELSE isValidResult(r))
    /\ UNCHANGED <<now, browserVars, middlewareVars, mounted, establishmentId, period>>

\* lines 94-198: the three reads have settled
ReadsSettle(c, wf, fin, ab) ==
    LET msg == readsError(wf, fin, ab)
        s == activitySession(localStorage)
    IN /\ cycle[c].pc = "awaitReads"
       /\ IF msg # NoError
          THEN \* throw at 143-145, catch, finally
               /\ error' = msg
               /\ loading' = FALSE
               /\ cycle' = [cycle EXCEPT ![c] = Done("readError")]
               /\ UNCHANGED data
          ELSE /\ data' = transformedData(wf, fin, ab)
               /\ IF s.threw
                  THEN \* line 184 threw: catch, finally
                       /\ error' = s.message
                       /\ loading' = FALSE
                       /\ cycle' = [cycle EXCEPT ![c] = Done("activityThrew")]
                  ELSE IF Truthy(s.company_id)
                  THEN \* line 186: suspended on the update
                       /\ cycle' = [cycle EXCEPT ![c] =
                             [IdleCycle EXCEPT !.pc = "awaitActivity"]]
                       /\ UNCHANGED <<error, loading>>
                  ELSE /\ loading' = FALSE
                       /\ cycle' = [cycle EXCEPT ![c] = Done("success")]
                       /\ UNCHANGED error
       /\ UNCHANGED <<now, browserVars, middlewareVars, mounted, establishmentId,
                      period, href>>

\* lines 186-198 with the completing cycle wiping the error it finds
ActivitySettleClearsError(c, failed) ==
    /\ cycle[c].pc = "awaitActivity"
    /\ loading' = FALSE
    /\ error' = NoError
    /\ cycle' = [cycle EXCEPT ![c] = Done("success")]
    /\ UNCHANGED <<now, browserVars, middlewareVars, mounted, establishmentId,
                   period, data, href>>

\* lines 186-198 without the finally of line 197
ActivitySettleKeepsLoading(c, failed) ==
    /\ cycle[c].pc = "awaitActivity"
    /\ cycle' = [cycle EXCEPT ![c] = Done("success")]
    /\ UNCHANGED <<now, browserVars, middlewareVars, mounted, establishmentId,
                   period, data, error, href, loading>>

\* lines 186-198: the update settles, with or without an error
ActivitySettle(c, failed) ==
    /\ cycle[c].pc = "awaitActivity"
    /\ loading' = FALSE
    /\ cycle' = [cycle EXCEPT ![c] = Done("success")]
    /\ UNCHANGED <<now, browserVars, middlewareVars, mounted, establishmentId,
                   period, data, error, href>>

\* time passes
Tick ==
    /\ now < MaxNow
    /\ now' = now + 1
    /\ UNCHANGED <<browserVars, middlewareVars, establishmentId, period, hookVars>>

(***************************************************************************)
(* Specifications.                                                         *)
(***************************************************************************)
InitHook ==
    /\ mounted = FALSE
    /\ data = NullData
    /\ loading = TRUE
    /\ error = NoError
    /\ href = "/dashboard"
    /\ cycle = [c \in Slots |-> IdleCycle]

\* the cookie that mirrors a store entry (spec.md, section 3)
Mirror(store) == IF store \in Texts THEN Btoa(store) ELSE Absent

\* The hook's page: any store entry, mirrored in the cookie.
Init ==
    /\ now = StartNow
    /\ localStorage \in StoreValues
    /\ cookies = [n \in CookieNames |->
                    IF n = "company_session" THEN Mirror(localStorage) ELSE Absent]
    /\ request = NoRequest
    /\ response = NoResponse
    /\ establishmentId \in Ids
    /\ period \in Periods
    /\ InitHook

HookNext ==
    \/ Mount
    \/ \E e \in Ids, p \in Periods : DepsChange(e, p)
    \/ Refresh
    \/ \E c \in Slots : ValidateReturned(c)
    \/ \E c \in Slots, r \in RpcResults : RpcSettle(c, r)
    \/ \E c \in Slots, wf \in ReadResults, fin \in ReadResults, ab \in ReadResults :
          ReadsSettle(c, wf, fin, ab)
    \/ \E c \in Slots, failed \in BOOLEAN : ActivitySettle(c, failed)

Next ==
    \/ HookNext
    \/ Tick

Spec == Init /\ [][Next]_vars

\* The middleware alone, as a function of the request: any cookies.
InitMiddleware ==
    /\ now = StartNow
    /\ localStorage = Absent
    /\ cookies \in [CookieNames -> {Absent} \cup CookieValues]
    /\ request = NoRequest
    /\ response = NoResponse
    /\ establishmentId = "E1"
    /\ period = "2024-01"
    /\ InitHook

NextMiddleware ==
    \/ \E path \in Paths : Request(path)
    \/ Tick

SpecMiddleware == InitMiddleware /\ [][NextMiddleware]_vars

\* The site: requests through the middleware and the hook on the page, one
\* fetch at a time.
SitePaths == {"/dashboard", "/admin/users", "/login"}
AdminSessions ==
    {SessionObject(Undefined, Undefined, e) : e \in {ExpUndefined, ExpAt(1)}}

InitSite ==
    /\ now = StartNow
    /\ localStorage \in StoreValues
    /\ \E a \in {Absent} \cup {Btoa(JsonText(o)) : o \in AdminSessions} :
          cookies = [n \in CookieNames |->
                       IF n = "company_session" THEN Mirror(localStorage) ELSE a]
    /\ request = NoRequest
    /\ response = NoResponse
    /\ establishmentId = "E1"
    /\ period \in Periods
    /\ InitHook

NextSite ==
    \/ Mount
    \/ (\E e \in Ids, p \in Periods : DepsChange(e, p)) /\ FreeSlots = Slots
    \/ Refresh /\ FreeSlots = Slots
    \/ \E c \in Slots : ValidateReturned(c)
    \/ \E c \in Slots, r \in RpcResults : RpcSettle(c, r)
    \/ \E c \in Slots, wf \in ReadResults, fin \in ReadResults, ab \in ReadResults :
          ReadsSettle(c, wf, fin, ab)
    \/ \E c \in Slots, failed \in BOOLEAN : ActivitySettle(c, failed)
    \/ \E path \in SitePaths : Request(path)
    \/ Tick

SpecSite == InitSite /\ [][NextSite]_vars

\* The hook on a page whose store entry is rewritten from outside while a
\* fetch is in flight: the session is created at login and removed at logout
\* by code outside the hook (another tab, the login page).
StoreWrites ==
    {Absent, NotJson, JsonText(JsonNull),
     JsonText(SessionObject("c1", "t1", ExpUndefined))}

StoreWritten(v) ==
    /\ v # localStorage
    /\ localStorage' = v
    /\ cookies' = [cookies EXCEPT !["company_session"] = Mirror(v)]
    /\ UNCHANGED <<now, middlewareVars, establishmentId, period, hookVars>>

InitStore ==
    /\ now = StartNow
    /\ localStorage \in StoreWrites
    /\ cookies = [n \in CookieNames |->
                    IF n = "company_session" THEN Mirror(localStorage) ELSE Absent]
    /\ request = NoRequest
    /\ response = NoResponse
    /\ establishmentId = "E1"
    /\ period \in Periods
    /\ InitHook

NextStore ==
    \/ HookNext
    \/ \E v \in StoreWrites : StoreWritten(v)

SpecStore == InitStore /\ [][NextStore]_vars

\* The hook, without the clock and the outside writes, when every call it
\* waits for settles: the continuation after
\* validateSession is run by the event loop, and the RPC, the three reads
\* and the activity update each settle in the end.
Settles ==
    \A c \in Slots :
        /\ WF_vars(ValidateReturned(c))
        /\ WF_vars(\E r \in RpcResults : RpcSettle(c, r))
        /\ WF_vars(\E wf \in ReadResults, fin \in ReadResults, ab \in ReadResults :
                      ReadsSettle(c, wf, fin, ab))
        /\ WF_vars(\E failed \in BOOLEAN : ActivitySettle(c, failed))

SpecFair == InitStore /\ [][HookNext]_vars /\ Settles

(***************************************************************************)
(* Properties of the middleware, checked under SpecMiddleware.             *)
(***************************************************************************)
\* the words of the session gate's local check
Decodes(c) == c.kind = "base64" /\ c.text.kind = "json" /\ c.text.value.kind = "object"
Malformed(c) == c.kind = "notBase64" \/ (c.kind = "base64" /\ c.text.kind = "notJSON")
Expired(c, t) == Decodes(c) /\ DateLess(NewDate(c.text.value.expires_at), t)
Incomplete(c) ==
    Decodes(c) /\ (~Truthy(c.text.value.company_id) \/ ~Truthy(c.text.value.access_token))
CompanyCheckPasses(c, t) == Decodes(c) /\ ~Expired(c, t) /\ ~Incomplete(c)
AdminCheckPasses(c, t) == Decodes(c) /\ ~Expired(c, t)

Requested == request # NoRequest
ProtectedRequest ==
    Requested /\ \E x \in {"/dashboard", "/import", "/employees", "/settings", "/api/import"} :
                    startsWith(request.path, x)
AdminRequest ==
    Requested /\ startsWith(request.path, "/admin") /\ request.path # "/admin/login"
PassedThrough == response.kind = "next"
RedirectedTo(to) == response.kind = "redirect" /\ response.location = to
\* the cookie is gone from the jar once the response is applied
Cleared(name) == cookies[name] = Absent

\* C1: a request to a protected path is passed through only if its
\* company_session cookie passes the local check; on any failure of the check
\* the response is a redirect to /login that clears the cookie.
C1_ProtectedRequiresSession ==
    ProtectedRequest =>
        LET c == request.cookies["company_session"]
        IN /\ PassedThrough => CompanyCheckPasses(c, request.at)
           /\ ~CompanyCheckPasses(c, request.at) =>
                 RedirectedTo("/login") /\ Cleared("company_session")

\* C2: a request to an admin path other than /admin/login is passed through
\* only if its admin_session cookie is present, decodable and not expired;
\* otherwise the response is a redirect to /admin/login, which clears the
\* cookie when the failure is expiry.
C2_AdminRequiresSession ==
    AdminRequest =>
        LET c == request.cookies["admin_session"]
        IN /\ PassedThrough => AdminCheckPasses(c, request.at)
           /\ ~AdminCheckPasses(c, request.at) => RedirectedTo("/admin/login")
           /\ Expired(c, request.at) => Cleared("admin_session")

\* C3: public wins: a path under a public prefix that is also under an admin
\* or protected prefix is passed through with no session cookie read, no
\* redirect, and no change to cookies or headers.
C3_PublicWins ==
    (Requested /\ isPublicPath(request.path)
        /\ (isAdminPath(request.path) \/ isProtectedPath(request.path))) =>
        /\ PassedThrough
        /\ response.read = {}
        /\ response.cleared = {}
        /\ response.headers = {}
        /\ cookies = request.cookies

\* C3 happens: a protected path that is public by the prefix '/', requested
\* with an expired session cookie, has been passed through.
C3_Witness ==
    /\ request.path = "/dashboard/kpi"
    /\ Expired(request.cookies["company_session"], request.at)
    /\ request.cookies["admin_session"] = NotBase64
    /\ PassedThrough
    /\ cookies = request.cookies

\* C5: a request to a protected path with a well-formed, unexpired, complete
\* company session is passed through, the cookie untouched, with the headers
\* x-company-id and x-access-token set to the cookie's values.
C5_IdentityHeaders ==
    LET c == request.cookies["company_session"]
    IN (ProtectedRequest /\ CompanyCheckPasses(c, request.at)) =>
        /\ PassedThrough
        /\ cookies["company_session"] = c
        /\ response.headers =
              {<<"x-company-id", c.text.value.company_id>>,
               <<"x-access-token", c.text.value.access_token>>}

\* C6: a cookie that is not base64 or not JSON gets a redirect to the login
\* path of the role, and the decode failure never leaves middleware as an
\* uncaught exception.
C6_MalformedRedirects ==
    /\ response.kind # "uncaught"
    /\ (AdminRequest /\ Malformed(request.cookies["admin_session"])) =>
          RedirectedTo("/admin/login")
    /\ (ProtectedRequest /\ Malformed(request.cookies["company_session"])) =>
          RedirectedTo("/login")

\* C7: for both roles, a malformed cookie, an expired session and an
\* incomplete session each get the same outcome: a redirect to the login path
\* of the role and the role's cookie cleared.
C7_FailuresAlike ==
    LET Fails(c, t) == Malformed(c) \/ Expired(c, t) \/ Incomplete(c)
    IN /\ (AdminRequest /\ Fails(request.cookies["admin_session"], request.at)) =>
             RedirectedTo("/admin/login") /\ Cleared("admin_session")
       /\ (ProtectedRequest /\ Fails(request.cookies["company_session"], request.at)) =>
             RedirectedTo("/login") /\ Cleared("company_session")

(***************************************************************************)
(* Properties of the hook, checked under Spec, and of the hook together    *)
(* with the middleware, checked under SpecSite.                            *)
(***************************************************************************)
\* the words of the local check, for the store entry
StoreDecodes(st) == st.kind = "json" /\ st.value.kind = "object"
StoreExpired(st, t) == StoreDecodes(st) /\ DateLess(NewDate(st.value.expires_at), t)
StoreIncomplete(st) ==
    StoreDecodes(st) /\ (~Truthy(st.value.company_id) \/ ~Truthy(st.value.access_token))

\* steps of the fetch cycle in slot c
BeginsFetch(c) ==
    cycle[c].pc \in {"idle", "done"} /\ cycle'[c].pc \in {"validated", "awaitRpc"}
RpcIssued(c) == cycle[c].pc # "awaitRpc" /\ cycle'[c].pc = "awaitRpc"
ReadsSettled(c) == cycle[c].pc = "awaitReads" /\ cycle'[c].pc # "awaitReads"
\* validateSession has returned false
ReturnsInvalid(c) == cycle'[c].pc = "validated"

\* the login path and the cookie of each role
LoginPath(n) == IF n = "admin_session" THEN "/admin/login" ELSE "/login"
CookieChecked(path) ==
    IF startsWith(path, "/admin") /\ path # "/admin/login" THEN {"admin_session"}
    ELSE IF \E x \in {"/dashboard", "/import", "/employees", "/settings", "/api/import"} :
              startsWith(path, x)
    THEN {"company_session"}
    ELSE {}

InvalidRpcResults ==
    {RpcThrew, RpcNoData, RpcRows(<<>>), RpcRows(<<[is_valid |-> FALSE]>>)}

\* C8: when the remote session check yields invalid (no stored session,
\* expired, the RPC without a row or with is_valid false, or failing), the
\* cycle sets error to the session-expired message and the location to
\* /login, ends with loading false, and never calls setData.
C8_InvalidSessionEndsCycle ==
    [][\A c \in Slots :
        /\ (BeginsFetch(c) /\ (localStorage = Absent \/ StoreExpired(localStorage, now)))
              => ReturnsInvalid(c)
        /\ BeginsFetch(c) => data' = data
        /\ (ValidateReturned(c) \/ \E r \in InvalidRpcResults : RpcSettle(c, r)) =>
              /\ error' = SessionExpired
              /\ href' = "/login"
              /\ loading' = FALSE
              /\ data' = data
              /\ cycle'[c] = Done("invalidSession")
      ]_vars

\* C8 happens: a cycle whose stored session passes every local test has ended
\* invalid (so on the RPC's answer), with no data.
C8_Witness ==
    /\ localStorage = JsonText(SessionObject("c1", "t1", ExpUndefined))
    /\ \E c \in Slots : cycle[c] = Done("invalidSession")
    /\ error = SessionExpired
    /\ href = "/login"
    /\ loading = FALSE
    /\ data = NullData

\* C9, as claimed: validateSession issues the RPC only when the stored session
\* is decodable, not expired and has both company_id and access_token; when
\* that local check fails it returns invalid without a network call.
C9_RpcOnlyAfterFullLocalCheck ==
    [][\A c \in Slots :
        LET passes == /\ StoreDecodes(localStorage)
                      /\ ~StoreExpired(localStorage, now)
                      /\ ~StoreIncomplete(localStorage)
        IN /\ RpcIssued(c) => passes
           /\ (BeginsFetch(c) /\ ~passes) => ReturnsInvalid(c)
      ]_vars

\* C9, amended: validateSession issues the RPC only when the stored session
\* is present, decodable and not expired; when one of these fails it returns
\* invalid without a network call.  The fields company_id and access_token
\* are not looked at: a session without them still reaches the RPC.
C9_RpcOnlyAfterExpiryCheck ==
    [][\A c \in Slots :
        LET passes == StoreDecodes(localStorage) /\ ~StoreExpired(localStorage, now)
        IN /\ RpcIssued(c) => (BeginsFetch(c) /\ passes)
           /\ (BeginsFetch(c) /\ ~passes) => (ReturnsInvalid(c) /\ ~RpcIssued(c))
      ]_vars

\* C9 happens: the RPC is in flight for a stored session that has no
\* access_token.
C9_Witness ==
    /\ StoreIncomplete(localStorage)
    /\ \E c \in Slots : cycle[c].pc = "awaitRpc" /\ cycle[c].p_token = Undefined

\* the reads that report no error, and the three results of a cycle in which
\* the read of partition part alone reports an error, with message m
OkReads == {r \in ReadResults : r.error = NoError}
OnlyErrorIn(part, m, r1, r2) ==
    IF part = "Workforce" THEN <<ReadError(m), r1, r2>>
    ELSE IF part = "Financial" THEN <<r1, ReadError(m), r2>>
    ELSE <<r1, r2, ReadError(m)>>
\* the step in which the reads of cycle c settle that way
SettlesWithOnlyError(c, part, m) ==
    \E r1 \in OkReads, r2 \in OkReads :
        LET rs == OnlyErrorIn(part, m, r1, r2)
        IN ReadsSettle(c, rs[1], rs[2], rs[3])

\* C10, as claimed: when exactly one of the three reads reports an error, the
\* cycle ends with data null and error the message naming that partition.
C10_OneReadErrorNullData ==
    [][\A c \in Slots :
        ReadsSettled(c) =>
            \A part \in Partitions, m \in Messages :
                SettlesWithOnlyError(c, part, m) =>
                    /\ cycle'[c].pc = "done"
                    /\ data' = NullData
                    /\ error' = part \o " data: " \o m
      ]_vars

\* C10, amended: when exactly one of the three reads reports an error, the
\* cycle ends with loading false and error the message naming that partition,
\* and leaves data as it was: null if no cycle has set it, else the data of
\* the last cycle that succeeded.
C10_OneReadErrorKeepsData ==
    [][\A c \in Slots :
        ReadsSettled(c) =>
            /\ \A part \in Partitions, m \in Messages :
                  SettlesWithOnlyError(c, part, m) =>
                      /\ cycle'[c] = Done("readError")
                      /\ loading' = FALSE
                      /\ data' = data
                      /\ error' = part \o " data: " \o m
            /\ data' # data => cycle'[c].outcome # "readError"
      ]_vars

\* C10 happens: a cycle has ended on the absence read's error alone (the two
\* reads tested before it reported none), and the data of an earlier cycle
\* is still there.
C10_Witness ==
    /\ \E c \in Slots : cycle[c] = Done("readError")
    /\ error = "Absence data: timeout"
    /\ data # NullData
    /\ loading = FALSE

\* the component of data for a read that reported no error: null when the
\* read found no row, a populated record when it found one
ComponentFor(res, comp) ==
    IF res.data = NoRow THEN comp = [kind |-> "null"] ELSE comp.kind = "kpi"
\* a cycle has ended in this step with one of the failing outcomes
SomeCycleFails ==
    \E d \in Slots :
        /\ cycle'[d] # cycle[d]
        /\ cycle'[d].outcome \in {"invalidSession", "readError", "activityThrew"}

C12_ActivityFailureSwallowed ==
    [][\A c \in Slots :
        /\ ReadsSettled(c) =>
              \A wf \in OkReads, fin \in OkReads, ab \in OkReads :
                  ReadsSettle(c, wf, fin, ab) =>
                      /\ error' = error
                      /\ data' = transformedData(wf, fin, ab)
                      /\ cycle'[c].pc = "done" => cycle'[c].outcome = "success"
        /\ \A failed \in BOOLEAN :
              ActivitySettle(c, failed) =>
                  /\ error' = error
                  /\ data' = data
                  /\ cycle'[c] = Done("success")
      ]_vars

\* C13: the activity update is not on the cycle's critical path: when the
\* three reads succeed the cycle reports its outcome, loading false, in the
\* same run of code, without waiting for the update to settle.
C13_ActivityNotAwaited ==
    [][\A c \in Slots :
        ReadsSettled(c) =>
            \A wf \in OkReads, fin \in OkReads, ab \in OkReads :
                ReadsSettle(c, wf, fin, ab) =>
                    /\ loading' = FALSE
                    /\ cycle'[c].pc = "done"
      ]_vars

\* fetchOptimizedKPIs is called with an empty establishmentId or period
EmptyInput(e, p) == ~Truthy(e) \/ ~Truthy(p)
RunsWithEmptyInput ==
    \/ (Mount \/ Refresh) /\ EmptyInput(establishmentId, period)
    \/ \E e \in Ids, p \in Periods : EmptyInput(e, p) /\ DepsChange(e, p)
\* the step issues no session check and no read
NothingIssued ==
    /\ UNCHANGED <<localStorage, cookies, href>>
    /\ \A c \in Slots : cycle'[c].pc \in {"idle", "done"} \/ cycle'[c] = cycle[c]

\* C14, as claimed: a run of fetchOptimizedKPIs with an empty entity id or
\* period, also after earlier cycles, issues no session check and no read
\* and leaves loading false, data null and error null.
C14_EmptyInputResetsState ==
    [][RunsWithEmptyInput =>
        /\ NothingIssued
        /\ loading' = FALSE
        /\ data' = NullData
        /\ error' = NoError
      ]_vars

\* C14, amended: such a run issues no session check and no read, sets
\* loading to false and leaves data and error as they were: null when no
\* earlier cycle has set them, else the data of the last success and the
\* message of the last failure.
C14_EmptyInputOnlyStopsLoading ==
    [][RunsWithEmptyInput =>
        /\ NothingIssued
        /\ loading' = FALSE
        /\ data' = data
        /\ error' = error
      ]_vars

\* C14 happens: after a cycle that succeeded, the period became empty and the
\* run for it has ended (all in the first slot, so one after the other): the
\* data of the earlier period is still exposed.
C14_Witness ==
    /\ period = ""
    /\ cycle[1] = Done("noInput")
    /\ \A c \in Slots \ {1} : cycle[c] = IdleCycle
    /\ loading = FALSE
    /\ isValid(data)

\* cycle c ends in this step
Ends(c) == cycle[c].pc \notin {"idle", "done"} /\ cycle'[c].pc = "done"
\* ... and no other cycle is in flight afterwards
EndsLast(c) == Ends(c) /\ \A d \in Slots : cycle'[d].pc \in {"idle", "done"}
Failures == {"invalidSession", "readError"}

\* C15, as claimed: once the cycles in flight have all ended, the exposed
\* state is the one the last-completing cycle would have produced alone:
\* loading false, and error null after a success, its own message after a
\* failure.
C15_LastCompletingWins ==
    [][\A c \in Slots :
        EndsLast(c) =>
            /\ loading' = FALSE
            /\ cycle'[c].outcome = "success" => error' = NoError
            /\ cycle'[c].outcome = "invalidSession" => error' = SessionExpired
            /\ cycle'[c].outcome = "readError" => error' \notin {NoError, SessionExpired}
      ]_vars

\* C15, amended: once the cycles in flight have all ended, loading is false
\* and each of data and error holds the last value written to it, by
\* whichever cycle: a cycle that ends in success leaves error as it finds it
\* (so the message of a failure that completed before it stays), a cycle
\* that ends in failure writes its message and leaves data as it finds it,
\* and data changes only where a cycle's three reads succeed.
C15_LastWritePerField ==
    [][
        /\ \A c \in Slots :
            /\ EndsLast(c) => loading' = FALSE
            /\ (Ends(c) /\ cycle'[c].outcome = "success") => error' = error
            /\ (Ends(c) /\ cycle'[c].outcome \in Failures) =>
                  /\ data' = data
                  /\ error' # NoError
                  /\ cycle'[c].outcome = "invalidSession" <=> error' = SessionExpired
        /\ data' # data =>
              \E c \in Slots :
                  /\ ReadsSettled(c)
                  /\ cycle'[c].outcome # "readError"
                  /\ isValid(data')
      ]_vars

\* C15 happens: the cycle of the second slot, begun while the first slot's
\* was in flight, ended on a read error, and the first slot's cycle ended in
\* success: the success's data and the failure's message are both exposed.
C15_Witness ==
    /\ cycle[1] = Done("success")
    /\ cycle[2] = Done("readError")
    /\ error \notin {NoError, SessionExpired}
    /\ isValid(data)
    /\ loading = FALSE

\* C16: in every cycle the three reads are issued only when the token RPC of
\* that cycle has answered valid; when the session check is invalid the cycle
\* ends there, with no read and no activity update, which is issued only
\* after the reads.
C16_ReadsOnlyAfterValidSession ==
    [][\A c \in Slots :
        /\ (cycle[c].pc # "awaitReads" /\ cycle'[c].pc = "awaitReads") =>
              RpcSettle(c, RpcRows(<<[is_valid |-> TRUE]>>))
        /\ (cycle[c].pc # "awaitActivity" /\ cycle'[c].pc = "awaitActivity") =>
              cycle[c].pc = "awaitReads"
        /\ (ValidateReturned(c) \/ \E r \in InvalidRpcResults : RpcSettle(c, r)) =>
              cycle'[c].pc = "done"
      ]_vars

\* C16 happens: one cycle is waiting for its reads, after a valid answer of
\* the RPC, and another one has ended on an invalid session.
C16_Witness ==
    \E c \in Slots, d \in Slots :
        /\ cycle[c].pc = "awaitReads"
        /\ cycle[d] = Done("invalidSession")
        /\ error = SessionExpired

NoDate(e) == e.kind # "iso"

\* C18: a session whose expires_at is absent or does not parse as a date is
\* not expired for any of the comparisons: the admin check and the company
\* check of middleware pass it (the company check when the session is
\* complete), no request is redirected and no cookie cleared, and
\* validateSession leaves the store and the cookie alone and issues the RPC.
C18_NoDateNeverExpires ==
    [][
        /\ LET c == cookies["admin_session"]
           IN (Decodes(c) /\ NoDate(c.text.value.expires_at)) =>
                  /\ ~Expired(c, now)
                  /\ adminRoute(cookies, now).kind = "next"
        /\ LET c == cookies["company_session"]
           IN (Decodes(c) /\ NoDate(c.text.value.expires_at)) =>
                  /\ ~Expired(c, now)
                  /\ ~Incomplete(c) => protectedRoute(cookies, now).kind = "next"
        /\ \A path \in SitePaths : \A n \in CookieChecked(path) :
              (Request(path) /\ Decodes(cookies[n])
                    /\ NoDate(cookies[n].text.value.expires_at)) =>
                  /\ response'.kind = "next"
                  /\ cookies' = cookies
        /\ \A c \in Slots :
              (BeginsFetch(c) /\ StoreDecodes(localStorage)
                    /\ NoDate(localStorage.value.expires_at)) =>
                  /\ RpcIssued(c)
                  /\ UNCHANGED <<localStorage, cookies>>
      ]_vars

\* C18 happens: an admin path was requested with an admin session that has
\* no expires_at and passed through, and the RPC is in flight for a stored
\* session whose expires_at is no date.
C18_Witness ==
    /\ request.path = "/admin/users"
    /\ Decodes(request.cookies["admin_session"])
    /\ request.cookies["admin_session"].text.value.expires_at = ExpUndefined
    /\ PassedThrough
    /\ cookies = request.cookies
    /\ StoreDecodes(localStorage)
    /\ localStorage.value.expires_at = ExpGarbage
    /\ \E c \in Slots : cycle[c].pc = "awaitRpc"

\* C19: a cycle that fails, on an invalid session or on a read error, leaves
\* data unchanged in every one of its steps: the data of an earlier
\* successful cycle stays exposed, with error non-null and isValid true.
C19_FailedCycleKeepsData ==
    [][\A c \in Slots :
        /\ (cycle'[c] # cycle[c]
              /\ ~(ReadsSettled(c) /\ cycle'[c].outcome # "readError")) =>
              data' = data
        /\ (Ends(c) /\ cycle'[c].outcome \in Failures) =>
              /\ error' # NoError
              /\ isValid(data') <=> isValid(data)
      ]_vars

\* C19 happens: after a success, a refresh has ended on an invalid session
\* (both in the first slot, one after the other): error is set, data is
\* still there and isValid is true.
C19_Witness ==
    /\ cycle[1] = Done("invalidSession")
    /\ \A c \in Slots \ {1} : cycle[c] = IdleCycle
    /\ error = SessionExpired
    /\ data # NullData
    /\ isValid(data)

\* a cycle is in flight in slot c
InFlight(c) == cycle[c].pc \notin {"idle", "done"}

\* C20: when every external call settles, every started cycle ends, and it
\* ends setting loading to false on each of its paths (missing input,
\* invalid session, read error, success); whenever a cycle has started and
\* none is in flight, loading is false.
C20_EveryCycleEnds ==
    /\ \A c \in Slots : InFlight(c) ~> (cycle[c].pc = "done")
    /\ [](mounted /\ (\A c \in Slots : ~InFlight(c)) => loading = FALSE)
    /\ [][(RunsWithEmptyInput \/ \E c \in Slots : Ends(c)) => loading' = FALSE]_vars

\* C20 happens: a run with missing input and a cycle that went through the
\* session check, the reads and the update have both ended, and loading is
\* false.
C20_Witness ==
    /\ mounted
    /\ cycle[1] = Done("noInput")
    /\ cycle[2] = Done("success")
    /\ loading = FALSE

=============================================================================
